---- MODULE Spec2Model ----
(***************************************************************************)
(* One run of streamlit_app.py, top to bottom: load_dataset / load_model,  *)
(* demo-data generation when the dataset is missing, the `latest` snapshot *)
(* (sort_values / groupby / last / temp_status / reindex), the campus map, *)
(* the "Run Forecast" button and the Actionable Insights banner.           *)
(*                                                                         *)
(* Temperatures and UV values are integers in tenths (36.0 degrees = 360). *)
(* A cell of a data frame is a record [k, v]: k = "num" (a float, v its    *)
(* value), k = "nan" (NaN, an empty cell), k = "str" (a Python str: the    *)
(* column was read with dtype object).  Timestamps are whole hours.        *)
(***************************************************************************)
EXTENDS Integers, Sequences, FiniteSets

VARIABLES
    pc,        \* position of the script
    source,    \* what is on disk at DATA_FILE: [kind, rows]
    df,        \* the module-level df: [none, rows]
    loaded,    \* what load_dataset() returned: "unset" | "None" | "frame"
    pipeline,  \* the module-level pipeline: "unset" | "None" | "model"
    gen,       \* demo generation: [used, now, zi, h, rows]
    rng,       \* position on the random tape (0: nothing drawn yet)
    latest,    \* the snapshot frame: [made, rows]
    err,       \* the exception that ended the run ("none" when there is none)
    forecast,  \* outcome of the Run Forecast handler
    banner,    \* the Actionable Insights messages shown, in order
    probe      \* input and result of a stand-alone temp_status call

vars == <<pc, source, df, loaded, pipeline, gen, rng, latest, err, forecast, banner, probe>>

(***************************************************************************)
(* Bounds of the model.                                                    *)
(***************************************************************************)
\* how many entries of the zone catalog the model keeps (the script has 10)
NumZones == 2
\* rows of thermal_data.csv
MaxRows == 2
\* hourly points generated per zone (the script uses 24*3)
Hours == 2

(***************************************************************************)
(* Files & constants                                                       *)
(***************************************************************************)
ZoneNames ==
    << "Main Parking Lot", "Academic Block A", "Academic Block B",
       "Boys Hostel 1", "Boys Hostel 2", "Girls Hostel",
       "Sports Stadium", "Central Library", "Green Quad", "Food Court" >>

\* the catalog the run works with: the first NumZones entries of the list
ZONES == SubSeq(ZoneNames, 1, NumZones)

\* a zone name a data file may carry that the catalog does not
OtherZone == "Visitor Centre"

CatalogSet == {ZONES[i] : i \in 1..Len(ZONES)}

\* position of a zone name in Python's string order (groupby sorts its keys)
KeyRank(z) ==
    CASE z = "Academic Block A" -> 1
      [] z = "Academic Block B" -> 2
      [] z = "Boys Hostel 1"    -> 3
      [] z = "Boys Hostel 2"    -> 4
      [] z = "Central Library"  -> 5
      [] z = "Food Court"       -> 6
      [] z = "Girls Hostel"     -> 7
      [] z = "Green Quad"       -> 8
      [] z = "Main Parking Lot" -> 9
      [] z = "Sports Stadium"   -> 10
      [] OTHER                  -> 11

(***************************************************************************)
(* Cells                                                                   *)
(***************************************************************************)
Num(v) == [k |-> "num", v |-> v]
NaN    == [k |-> "nan", v |-> 0]
Str(v) == [k |-> "str", v |-> v]

Max(a, b) == IF a >= b THEN a ELSE b

(***************************************************************************)
(* What can be on disk at DATA_FILE.  kind "file" is a CSV with the header *)
(* timestamp,zone,temp,uv that pd.read_csv parses; the other kinds make    *)
(* pd.read_csv raise (no file, no permission, no table / no timestamp      *)
(* column).  A cell of the file is a number, empty, or text that is no     *)
(* number ("bad").                                                         *)
(***************************************************************************)
FileTimes == {9, 10}

FileNum(v) == [k |-> "num", v |-> v]
FileEmpty  == [k |-> "empty", v |-> 0]
FileBad    == [k |-> "bad", v |-> 0]

\* the (temp, uv) cells of a row: every temperature class, and an empty and
\* a malformed cell in either column
FileCells ==
    { <<FileNum(350), FileNum(3)>>, <<FileNum(410), FileNum(3)>>,
      <<FileNum(380), FileEmpty>>, <<FileNum(380), FileBad>>,
      <<FileEmpty, FileNum(3)>>, <<FileBad, FileNum(3)>> }

\* the zones a file names: the first and the last of the catalog, and one
\* the catalog does not have
FileZones == {ZONES[1], ZONES[Len(ZONES)], OtherZone}

FileRows ==
    { [timestamp |-> t, zone |-> z, temp |-> c[1], uv |-> c[2]] :
        t \in FileTimes, z \in FileZones, c \in FileCells }

Sources ==
    { [kind |-> k, rows |-> <<>>] : k \in {"missing", "unreadable", "unparseable"} }
    \cup
    { [kind |-> "file", rows |-> r] : r \in UNION { [1..n -> FileRows] : n \in 0..MaxRows } }

(***************************************************************************)
(* Helpers (load data & model)                                             *)
(***************************************************************************)
\* pandas' column type inference: one cell that is no number makes the whole
\* column dtype object, and every non-empty cell of it a str
ObjectColumn(cells) == \E i \in 1..Len(cells) : cells[i].k = "bad"

ReadCell(c, object) ==
    IF c.k = "empty" THEN NaN
    ELSE IF object THEN Str(c.v) ELSE Num(c.v)

read_csv(rows) ==
    LET tObj == ObjectColumn([i \in 1..Len(rows) |-> rows[i].temp])
        uObj == ObjectColumn([i \in 1..Len(rows) |-> rows[i].uv])
    IN  [i \in 1..Len(rows) |->
            [timestamp |-> rows[i].timestamp,
             zone      |-> rows[i].zone,
             temp      |-> ReadCell(rows[i].temp, tObj),
             uv        |-> ReadCell(rows[i].uv, uObj)]]

\* load_dataset without its try/except
load_dataset_uncaught(src) ==
    IF src.kind = "file"
    THEN [raised |-> FALSE, none |-> FALSE, rows |-> read_csv(src.rows)]
    ELSE [raised |-> TRUE, none |-> FALSE, rows |-> <<>>]

load_dataset(src) ==
    IF src.kind = "file"
    THEN [raised |-> FALSE, none |-> FALSE, rows |-> read_csv(src.rows)]
    ELSE [raised |-> FALSE, none |-> TRUE, rows |-> <<>>]

\* temp_status with >= for both thresholds
temp_status_ge(temp) ==
    IF temp.k = "str" THEN "TypeError"
    ELSE IF temp.k = "nan" THEN "Safe"
    ELSE IF temp.v >= 400 THEN "Hotspot"
    ELSE IF temp.v >= 360 THEN "Medium"
    ELSE "Safe"

\* str > int raises TypeError; NaN > 40 and NaN > 36 are both False
temp_status(temp) ==
    IF temp.k = "str" THEN "TypeError"
    ELSE IF temp.k = "nan" THEN "Safe"
    ELSE IF temp.v > 400 THEN "Hotspot"
    ELSE IF temp.v > 360 THEN "Medium"
    ELSE "Safe"

(***************************************************************************)
(* Randomness: np.random is a generator seeded once per process; the model *)
(* draws from a fixed tape and the seed is where a run starts on it.       *)
(* StdNormal holds standard-normal draws and Uniform rand() draws, both in *)
(* hundredths.                                                             *)
(***************************************************************************)
StdNormal == << -117, 52, 0, 183, -63 >>
Uniform   == << 3, 45, 97, 50, 71 >>
Seeds     == 1..Len(StdNormal)

Seeded(r, s) == IF r = 0 THEN s ELSE r
Advance(r)   == (r % Len(StdNormal)) + 1

\* np.random.normal(0, sigma), sigma in tenths of a unit, result in tenths
normal(r, sigma10) == (StdNormal[r] * sigma10) \div 100
\* (np.random.rand() - 0.45) * scale, scale in tenths, result in tenths
rand_shift(r, scale10) == ((Uniform[r] - 45) * scale10) \div 100

(***************************************************************************)
(* Demo data                                                               *)
(***************************************************************************)
\* 1000 * sin(d degrees), Bhaskara's rational approximation
HalfSine(e) == (4000 * e * (180 - e)) \div (40500 - e * (180 - e))
Sin1000(d) ==
    LET e == d % 360
    IN  IF e <= 180 THEN HalfSine(e) ELSE 0 - HalfSine(e - 180)

\* pd.Timestamp.now().floor("H"), in hours since the start of the year
NowSet == { 90 * 24 + 15, 90 * 24 + 12, 181 * 24 + 9, 273 * 24 + 3 }

HourOf(ts)      == ts % 24
DayOfYear(ts)   == (ts \div 24) + 1
HourAngle(ts)   == ((HourOf(ts) - 9) * 15) % 360
SeasonAngle(ts) == ((DayOfYear(ts) % 365) * 360) \div 365

\* "Parking" in z or "Stadium" in z: 3; "Quad" in z or "Library" in z: -2
offset(z) ==
    IF z \in {"Main Parking Lot", "Sports Stadium"} THEN 3
    ELSE IF z \in {"Green Quad", "Central Library"} THEN -2
    ELSE 0

\* round(x, 1) of a value given in thousandths, as tenths
Round1(x1000) == (x1000 + 50) \div 100

demo_temp(z, ts, noise10) ==
    Round1(26000 + 6 * Sin1000(SeasonAngle(ts)) + 6 * Sin1000(HourAngle(ts))
           + 1000 * offset(z) + 100 * noise10)

\* the uv of a demo row without max(0, ...)
demo_uv_unclipped(ts, noise10) ==
    Round1(9 * Sin1000(HourAngle(ts)) + 100 * noise10)

demo_uv(ts, noise10) ==
    Max(0, Round1(9 * Sin1000(HourAngle(ts)) + 100 * noise10))

demo_row(z, ts, r) ==
    [timestamp |-> ts, zone |-> z,
     temp |-> Num(demo_temp(z, ts, normal(r, 6))),
     uv   |-> Num(demo_uv(ts, normal(Advance(r), 6)))]

(***************************************************************************)
(* Latest snapshot                                                         *)
(***************************************************************************)
RECURSIVE Orders(_, _)
\* every order of the row indices S that is ascending in timestamp
Orders(rows, S) ==
    IF S = {} THEN { <<>> }
    ELSE UNION { { <<i>> \o t : t \in Orders(rows, S \ {i}) } :
                 i \in { j \in S : \A k \in S : rows[j].timestamp <= rows[k].timestamp } }

\* df.sort_values("timestamp"): the default kind is quicksort, which is not
\* stable, so rows of equal timestamp may come out in any order
sort_values(rows) ==
    { [n \in 1..Len(rows) |-> rows[o[n]]] : o \in Orders(rows, 1..Len(rows)) }

\* GroupBy.last() of one column: the last value of the group that is not
\* null, NaN when the group has none
last_valid(rows, z, col) ==
    LET idx == { i \in 1..Len(rows) : rows[i].zone = z /\ rows[i][col].k # "nan" }
    IN  IF idx = {} THEN NaN
        ELSE rows[CHOOSE i \in idx : \A j \in idx : j <= i][col]

\* the value of the last row of the group, null or not
last_row(rows, z, col) ==
    LET idx == { i \in 1..Len(rows) : rows[i].zone = z }
    IN  rows[CHOOSE i \in idx : \A j \in idx : j <= i][col]

RECURSIVE KeyOrder(_)
\* the group keys in sorted order
KeyOrder(keys) ==
    IF keys = {} THEN <<>>
    ELSE LET z == CHOOSE a \in keys : \A b \in keys : KeyRank(a) <= KeyRank(b)
         IN  <<z>> \o KeyOrder(keys \ {z})

\* .groupby("zone").last().reset_index() of a sorted frame
groupby_last(rows) ==
    LET keys == KeyOrder({ rows[i].zone : i \in 1..Len(rows) })
    IN  [n \in 1..Len(keys) |->
            [zone      |-> keys[n],
             timestamp |-> Num(last_row(rows, keys[n], "timestamp")),
             temp      |-> last_valid(rows, keys[n], "temp"),
             uv        |-> last_valid(rows, keys[n], "uv")]]

\* latest["status"] = latest["temp"].apply(temp_status)
apply_status(g) ==
    [n \in 1..Len(g) |->
        [zone |-> g[n].zone, timestamp |-> g[n].timestamp, temp |-> g[n].temp,
         uv |-> g[n].uv, status |-> temp_status(g[n].temp)]]

AbsentRow(z) ==
    [zone |-> z, timestamp |-> NaN, temp |-> NaN, uv |-> NaN, status |-> "NaN"]

\* the frame left in key order, without the reindex
reindex_skipped(g, zones) == g

\* .set_index("zone").reindex(ZONES).reset_index()
reindex(g, zones) ==
    [n \in 1..Len(zones) |->
        IF \E m \in 1..Len(g) : g[m].zone = zones[n]
        THEN g[CHOOSE m \in 1..Len(g) : g[m].zone = zones[n]]
        ELSE AbsentRow(zones[n])]

(***************************************************************************)
(* State                                                                   *)
(***************************************************************************)
NoFrame    == [none |-> TRUE, rows |-> <<>>]
NoGen      == [used |-> FALSE, now |-> 0, zi |-> 1, h |-> 0, rows |-> <<>>]
NoLatest   == [made |-> FALSE, rows |-> <<>>]
NoForecast == [pressed |-> FALSE, from |-> "none", outcome |-> "none", zone |-> "",
               temp |-> NaN, uv |-> NaN, d_temp |-> 0, d_uv |-> 0]
NoProbe    == [t |-> NaN, status |-> "unset"]

Init ==
    /\ pc = "load_dataset"
    /\ source \in Sources
    /\ df = NoFrame
    /\ loaded = "unset"
    /\ pipeline = "unset"
    /\ gen = NoGen
    /\ rng = 0
    /\ latest = NoLatest
    /\ err = "none"
    /\ forecast = NoForecast
    /\ banner = <<>>
    /\ probe = NoProbe

\* df = load_dataset()
LoadDataset ==
    /\ pc = "load_dataset"
    /\ LET r == load_dataset(source)
       IN  IF r.raised
           THEN /\ pc' = "aborted"
                /\ err' = "FileNotFoundError"
                /\ UNCHANGED <<df, loaded>>
           ELSE /\ pc' = "load_model"
                /\ df' = [none |-> r.none, rows |-> r.rows]
                /\ loaded' = IF r.none THEN "None" ELSE "frame"
                /\ err' = err
    /\ UNCHANGED <<source, pipeline, gen, rng, latest, forecast, banner, probe>>

\* pipeline = load_model(): joblib.load raises when MODEL_FILE is missing or
\* unreadable, and load_model turns that into None.  Then the test
\* `if df is None` picks the demo branch or goes on to the snapshot.
LoadModel ==
    /\ pc = "load_model"
    /\ \E m \in {"None", "model"} : pipeline' = m
    /\ pc' = IF df.none THEN "demo_start" ELSE "snapshot"
    /\ UNCHANGED <<source, df, loaded, gen, rng, latest, err, forecast, banner, probe>>

\* if df is None: now = pd.Timestamp.now().floor("H"); rows = []
StartDemo ==
    /\ pc = "demo_start"
    /\ \E now \in NowSet : gen' = [used |-> TRUE, now |-> now, zi |-> 1, h |-> 0, rows |-> <<>>]
    /\ pc' = "demo_loop"
    /\ UNCHANGED <<source, df, loaded, pipeline, rng, latest, err, forecast, banner, probe>>

\* one pass of the body of: for z in ZONES: for h in range(0, 24*3)
AppendDemoRow ==
    /\ pc = "demo_loop"
    /\ gen.zi <= Len(ZONES)
    /\ \E s \in Seeds :
         LET r  == Seeded(rng, s)
             ts == gen.now - gen.h
         IN  /\ gen' = [gen EXCEPT
                          !.rows = Append(@, demo_row(ZONES[gen.zi], ts, r)),
                          !.h    = IF gen.h + 1 < Hours THEN gen.h + 1 ELSE 0,
                          !.zi   = IF gen.h + 1 < Hours THEN @ ELSE @ + 1]
             /\ rng' = Advance(Advance(r))
    /\ UNCHANGED <<pc, source, df, loaded, pipeline, latest, err, forecast, banner, probe>>

\* df = pd.DataFrame(rows)
BuildDemoFrame ==
    /\ pc = "demo_loop"
    /\ gen.zi > Len(ZONES)
    /\ df' = [none |-> FALSE, rows |-> gen.rows]
    /\ pc' = "snapshot"
    /\ UNCHANGED <<source, loaded, pipeline, gen, rng, latest, err, forecast, banner, probe>>

\* the three statements that build `latest`
DeriveLatest ==
    /\ pc = "snapshot"
    /\ \E sorted \in sort_values(df.rows) :
         LET g == apply_status(groupby_last(sorted))
         IN  IF \E n \in 1..Len(g) : g[n].status = "TypeError"
             THEN /\ pc' = "aborted"
                  /\ err' = "TypeError"
                  /\ latest' = latest
             ELSE /\ pc' = "map"
                  /\ err' = err
                  /\ latest' = [made |-> TRUE, rows |-> reindex(g, ZONES)]
    /\ UNCHANGED <<source, df, loaded, pipeline, gen, rng, forecast, banner, probe>>

(***************************************************************************)
(* Top area: the zone cards read r["temp"] only through status_color and   *)
(* an f-string, which accept NaN; the map computes                         *)
(*   size = 46 + int((row['temp'] - tmin) * 2.8)   and   int(row['temp'])  *)
(* for every row of latest, and int(NaN) raises ValueError.                *)
(***************************************************************************)
bubble_error(row) ==
    IF row.temp.k = "nan" THEN "ValueError"
    ELSE IF row.temp.k = "str" THEN "TypeError"
    ELSE "none"

RenderMap ==
    /\ pc = "map"
    /\ LET bad == { n \in 1..Len(latest.rows) : bubble_error(latest.rows[n]) # "none" }
       IN  IF bad = {}
           THEN /\ pc' = "forecast"
                /\ err' = err
           ELSE /\ pc' = "aborted"
                /\ err' = bubble_error(latest.rows[CHOOSE n \in bad : \A m \in bad : n <= m])
    /\ UNCHANGED <<source, df, loaded, pipeline, gen, rng, latest, forecast, banner, probe>>

(***************************************************************************)
(* Forecast                                                                *)
(***************************************************************************)
\* float + float; NaN + x is NaN; str + float raises TypeError
Plus(c, d) ==
    IF c.k = "num" THEN Num(c.v + d)
    ELSE IF c.k = "nan" THEN NaN
    ELSE [k |-> "TypeError", v |-> 0]

\* Python's max(0, x): x when x > 0, else 0 (so 0 for NaN)
max0(c) ==
    IF c.k = "num" THEN Num(Max(0, c.v))
    ELSE IF c.k = "nan" THEN Num(0)
    ELSE c

\* what pipeline.predict(Xpred) can do: return rows of (temp, uv), raise, or
\* return something pred[0][0] / pred[0][1] cannot index
PredictOutcomes == {"pair", "raises", "scalar"}
\* a prediction of the model, (temp, uv)
ModelPairs == { <<372, 41>> }

LatestRow(z) == latest.rows[CHOOSE n \in 1..Len(latest.rows) : latest.rows[n].zone = z]

\* the handler's outcome for a zone, a predict outcome and the tape position
run_forecast(z, outcome, pair, r) ==
    LET row  == LatestRow(z)
        r2   == Advance(r)
        dT   == IF pipeline = "model" THEN normal(r, 10) ELSE rand_shift(r, 20)
        dU   == IF pipeline = "model" THEN normal(r2, 6) ELSE rand_shift(r2, 12)
    IN  IF pipeline = "model" /\ outcome = "pair"
        THEN [pressed |-> TRUE, from |-> "model", outcome |-> outcome, zone |-> z,
              temp |-> Num(pair[1]), uv |-> Num(pair[2]), d_temp |-> 0, d_uv |-> 0]
        ELSE [pressed |-> TRUE, from |-> "fallback",
              outcome |-> IF pipeline = "model" THEN outcome ELSE "none", zone |-> z,
              temp |-> Plus(row.temp, dT), uv |-> max0(Plus(row.uv, dU)),
              d_temp |-> dT, d_uv |-> dU]

\* if st.button("Run Forecast", key="f1"): pressed
RunForecast ==
    /\ pc = "forecast"
    /\ \E z \in CatalogSet, o \in PredictOutcomes, p \in ModelPairs, s \in Seeds :
         LET r == Seeded(rng, s)
             f == run_forecast(z, o, p, r)
         IN  /\ rng' = IF f.from = "model" THEN rng ELSE Advance(Advance(r))
             /\ IF f.temp.k = "TypeError" \/ f.uv.k = "TypeError"
                THEN /\ pc' = "aborted"
                     /\ err' = "TypeError"
                     /\ forecast' = [NoForecast EXCEPT !.pressed = TRUE, !.zone = z,
                                                         !.outcome = f.outcome]
                ELSE /\ pc' = "insights"
                     /\ err' = err
                     /\ forecast' = f
    /\ UNCHANGED <<source, df, loaded, pipeline, gen, latest, banner, probe>>

\* the button is not pressed in this run
SkipForecast ==
    /\ pc = "forecast"
    /\ pc' = "insights"
    /\ UNCHANGED <<source, df, loaded, pipeline, gen, rng, latest, err, forecast, banner, probe>>

(***************************************************************************)
(* Actionable insights                                                     *)
(***************************************************************************)
HasStatus(rows, st) == \E n \in 1..Len(rows) : rows[n].status = st

insights(rows) ==
    IF HasStatus(rows, "Hotspot") THEN "hotspot"
    ELSE IF HasStatus(rows, "Medium") THEN "moderate"
    ELSE "all_safe"

ShowInsights ==
    /\ pc = "insights"
    /\ banner' = Append(banner, insights(latest.rows))
    /\ pc' = "done"
    /\ UNCHANGED <<source, df, loaded, pipeline, gen, rng, latest, err, forecast, probe>>

Next ==
    \/ LoadDataset
    \/ LoadModel
    \/ StartDemo
    \/ AppendDemoRow
    \/ BuildDemoFrame
    \/ DeriveLatest
    \/ RenderMap
    \/ RunForecast
    \/ SkipForecast
    \/ ShowInsights

Spec == Init /\ [][Next]_vars

(***************************************************************************)
(* temp_status on its own, over a sweep of temperatures                    *)
(***************************************************************************)
TempSamples == 300..460

InitClassify ==
    /\ pc = "classify"
    /\ source = [kind |-> "missing", rows |-> <<>>]
    /\ df = NoFrame
    /\ loaded = "unset"
    /\ pipeline = "unset"
    /\ gen = NoGen
    /\ rng = 0
    /\ latest = NoLatest
    /\ err = "none"
    /\ forecast = NoForecast
    /\ banner = <<>>
    /\ probe \in { [t |-> Num(x), status |-> "unset"] : x \in TempSamples }

Classify ==
    /\ pc = "classify"
    /\ probe' = [probe EXCEPT !.status = temp_status(probe.t)]
    /\ pc' = "classified"
    /\ UNCHANGED <<source, df, loaded, pipeline, gen, rng, latest, err, forecast, banner>>

NextClassify == Classify

SpecClassify == InitClassify /\ [][NextClassify]_vars

(***************************************************************************)
(* Properties                                                              *)
(***************************************************************************)
AfterSnapshot == {"map", "forecast", "insights", "done", "aborted"}

RowsOf(z) == { i \in 1..Len(df.rows) : df.rows[i].zone = z }

StrTemps == \E i \in 1..Len(df.rows) : df.rows[i].temp.k = "str"

\* C1: the snapshot has exactly one row per catalog zone, in catalog order,
\* whatever zones the series names (none, some, or zones outside the
\* catalog); and for every frame of float temperatures the three statements
\* that build it end without an error.
C1_CatalogOrder ==
    /\ latest.made =>
         /\ Len(latest.rows) = Len(ZONES)
         /\ \A n \in 1..Len(ZONES) : latest.rows[n].zone = ZONES[n]
    /\ (pc \in AfterSnapshot /\ loaded # "unset" /\ ~StrTemps) => latest.made

\* a snapshot of a file that names a zone outside the catalog and a catalog
\* zone, and leaves a catalog zone out
C1_Witness ==
    /\ latest.made
    /\ source.kind = "file"
    /\ RowsOf(OtherZone) # {}
    /\ \E z \in CatalogSet : RowsOf(z) # {}
    /\ \E z \in CatalogSet : RowsOf(z) = {}

\* the reading of zone z with the maximum timestamp, the last arrived among
\* those that share it
Newest(z) ==
    CHOOSE i \in RowsOf(z) : \A j \in RowsOf(z) :
        \/ df.rows[j].timestamp < df.rows[i].timestamp
        \/ df.rows[j].timestamp = df.rows[i].timestamp /\ j <= i

\* C2: for every catalog zone with a reading, the snapshot row carries the
\* temperature, uv and timestamp of the zone's reading with the maximum
\* timestamp, the last arrived one when several share it.
C2_NewestReadingWins ==
    latest.made =>
        \A n \in 1..Len(ZONES) :
            RowsOf(ZONES[n]) # {} =>
                LET r == df.rows[Newest(ZONES[n])]
                IN  /\ latest.rows[n].timestamp = Num(r.timestamp)
                    /\ latest.rows[n].temp = r.temp
                    /\ latest.rows[n].uv = r.uv

\* C3: every snapshot row takes timestamp, temperature and uv from one single
\* reading of the series (or is absent in all three when the zone has none).
C3_RowFromOneReading ==
    latest.made =>
        \A n \in 1..Len(ZONES) :
            LET row == latest.rows[n]
            IN  IF RowsOf(ZONES[n]) = {}
                THEN row.timestamp = NaN /\ row.temp = NaN /\ row.uv = NaN
                ELSE \E i \in RowsOf(ZONES[n]) :
                        /\ row.timestamp = Num(df.rows[i].timestamp)
                        /\ row.temp = df.rows[i].temp
                        /\ row.uv = df.rows[i].uv

\* C4: in every snapshot the status is present exactly when the temperature
\* is: absent for an absent temperature, temp_status(t) for a present t.
C4_StatusIffTemperature ==
    latest.made =>
        \A n \in 1..Len(ZONES) :
            LET row == latest.rows[n]
            IN  IF row.temp.k = "num"
                THEN row.status = temp_status(row.temp)
                ELSE row.status = "NaN"

\* C5: temp_status is Hotspot exactly for t > 40, Medium exactly for
\* 36 < t <= 40 and Safe exactly for t <= 36; 36.0 is Safe, 36.1 Medium,
\* 40.0 Medium and 40.1 Hotspot.
C5_Thresholds ==
    pc = "classified" =>
        /\ probe.status \in {"Hotspot", "Medium", "Safe"}
        /\ probe.status = "Hotspot" <=> probe.t.v > 400
        /\ probe.status = "Medium" <=> (360 < probe.t.v /\ probe.t.v <= 400)
        /\ probe.status = "Safe" <=> probe.t.v <= 360
        /\ probe.t.v = 360 => probe.status = "Safe"
        /\ probe.t.v = 361 => probe.status = "Medium"
        /\ probe.t.v = 400 => probe.status = "Medium"
        /\ probe.t.v = 401 => probe.status = "Hotspot"

\* temp_status has classified exactly 40.0
C5_Witness == pc = "classified" /\ probe.t = Num(400) /\ probe.status = "Medium"

PresentRow(row) ==
    /\ row.timestamp.k = "num"
    /\ row.temp.k = "num"
    /\ row.uv.k = "num"
    /\ row.status \in {"Hotspot", "Medium", "Safe"}

\* C6: when the data source is missing, unreadable or unparseable,
\* load_dataset returns None and raises nothing, the demo series is generated
\* before the snapshot is derived, no error ends the run, and the snapshot
\* has a present temperature, uv, timestamp and status for every catalog
\* zone; demo data is generated only when load_dataset returned None.
C6_SourceUnavailable ==
    /\ source.kind # "file" =>
         /\ err = "none" /\ pc # "aborted"
         /\ loaded \in {"unset", "None"}
         /\ pc \notin {"load_dataset", "load_model"} => loaded = "None"
         /\ pc \in {"snapshot"} \cup AfterSnapshot => gen.used /\ ~df.none
         /\ pc \in AfterSnapshot => latest.made
         /\ latest.made => \A n \in 1..Len(ZONES) : PresentRow(latest.rows[n])
    /\ gen.used => loaded = "None"

\* a run without a data file that reached its end
C6_Witness == source.kind = "missing" /\ pc = "done" /\ gen.used /\ latest.made

Malformed(row) == row.temp.k = "bad" \/ row.uv.k = "bad"

WellFormedRows == SelectSeq(source.rows, LAMBDA row : ~Malformed(row))

Snapshots(rows) ==
    { reindex(apply_status(groupby_last(sorted)), ZONES) : sorted \in sort_values(rows) }

\* C7: when some rows of a loaded file have a malformed temp or uv, exactly
\* those rows are dropped and the snapshot is derived from the others without
\* an error; when every row is malformed the run generates the demo series.
C7_MalformedRowsDropped ==
    (/\ source.kind = "file"
     /\ \E i \in 1..Len(source.rows) : Malformed(source.rows[i])
     /\ pc \in AfterSnapshot)
    => IF WellFormedRows = <<>>
       THEN gen.used
       ELSE /\ err = "none"
            /\ latest.made
            /\ latest.rows \in Snapshots(read_csv(WellFormedRows))

\* C8: the demo series has Hours readings for each catalog zone and no
\* others; a zone's readings have pairwise distinct whole-hour timestamps,
\* all <= now and > now - Hours, the one at now among them; no uv is
\* negative.
C8_DemoSeries ==
    (gen.used /\ pc # "demo_loop") =>
        /\ Len(df.rows) = Hours * Len(ZONES)
        /\ \A i \in 1..Len(df.rows) :
              /\ df.rows[i].zone \in CatalogSet
              /\ df.rows[i].uv.k = "num" /\ df.rows[i].uv.v >= 0
              /\ df.rows[i].timestamp <= gen.now
              /\ df.rows[i].timestamp > gen.now - Hours
        /\ \A z \in CatalogSet :
              /\ Cardinality(RowsOf(z)) = Hours
              /\ Cardinality({ df.rows[i].timestamp : i \in RowsOf(z) }) = Hours
              /\ \E i \in RowsOf(z) : df.rows[i].timestamp = gen.now

\* a generated series in which max(0, ...) clipped one uv and left another
C8_Witness ==
    /\ gen.used /\ pc = "snapshot"
    /\ \E i \in 1..Len(df.rows) : df.rows[i].uv.v = 0
    /\ \E i \in 1..Len(df.rows) : df.rows[i].uv.v > 0

\* C9: whenever Run Forecast is pressed a forecast temperature is produced
\* and no exception escapes; it is the model's exactly when the model is
\* there and predict returns a (temp, uv) pair, and otherwise the zone's
\* latest temperature plus a perturbation, with a uv clipped at 0.
C9_ForecastNeverRaises ==
    forecast.pressed =>
        /\ err = "none" /\ pc # "aborted"
        /\ forecast.temp.k = "num"
        /\ forecast.from = "model" <=> (pipeline = "model" /\ forecast.outcome = "pair")
        /\ forecast.from # "model" =>
              /\ forecast.from = "fallback"
              /\ forecast.temp = Plus(LatestRow(forecast.zone).temp, forecast.d_temp)
              /\ forecast.uv.k = "num" /\ forecast.uv.v >= 0

\* C10: every run shows exactly one Actionable Insights message: the hotspot
\* alert when a catalog zone is Hotspot, else the moderate-risk message when
\* one is Medium, and "All zones safe" only when every catalog zone of the
\* snapshot is Safe.
C10_OneBannerPerRun ==
    /\ Len(banner) <= 1
    /\ pc \in {"done", "aborted"} => Len(banner) = 1
    /\ Len(banner) = 1 =>
         /\ banner[1] = "hotspot" <=> HasStatus(latest.rows, "Hotspot")
         /\ banner[1] = "moderate" <=>
               (~HasStatus(latest.rows, "Hotspot") /\ HasStatus(latest.rows, "Medium"))
         /\ banner[1] = "all_safe" =>
               \A n \in 1..Len(latest.rows) : latest.rows[n].status = "Safe"

====
